---- MODULE Spec2Model ----
(***************************************************************************)
(* Model of the marine-retrofit backend (FastAPI + SQLAlchemy): the users, *)
(* projects, project_assignments, tasks, inventory, blueprints and         *)
(* user_settings tables and the request handlers of main.py and of         *)
(* routers/projects.py, tasks.py, inventory.py, blueprints.py and          *)
(* settings.py.  One action per handler; the response to the last request  *)
(* is kept in `last`.                                                      *)
(***************************************************************************)
EXTENDS Integers, Sequences, FiniteSets, TLC

VARIABLES
    users,          \* users table: user_id -> role
    projects,       \* projects table: project_id -> [created_by]
    assignments,    \* project_assignments rows of each project, in insertion order
    tasks,          \* tasks table: task_id -> [project_id, assigned_to, status, completion_date]
    last_project_id,\* highest project_id handed out by the autoincrement key
    last_task_id,   \* highest task_id handed out by the autoincrement key
    inventory,      \* inventory table: item_id -> [quantity, reorder_level]
    last_item_id,   \* highest item_id handed out by the autoincrement key
    blueprints,     \* blueprints table: blueprint_id -> [project_id, uploaded_by, is_active, file]
    last_blueprint_id, \* highest blueprint_id handed out by the autoincrement key
    settings,       \* user_settings rows, in insertion order: [user_id, theme]
    inflight,       \* task requests that passed validation and have not committed yet
    last            \* the response to the last request: [op, code] or [op, code, body]

\* the state the handlers of routers/projects.py and routers/tasks.py never touch
rest == <<inventory, last_item_id, settings, inflight>>

\* the blueprints table and its key
files == <<blueprints, last_blueprint_id>>

store == <<users, projects, assignments, tasks, last_project_id, last_task_id, rest, files>>
vars == <<users, projects, assignments, tasks, last_project_id, last_task_id, rest, files,
          last>>

-----------------------------------------------------------------------------
(* Bounds of the model *)

MaxProjects == 2    \* project ids ever handed out
MaxTasks == 1       \* task ids ever handed out
MaxTeam == 1        \* length of an assigned_user_ids list
MaxListTasks == 2   \* task rows in the stores the list requests are run against
MaxItems == 2       \* inventory item ids ever handed out
MaxBlueprints == 2  \* blueprint ids ever handed out
MaxIdList == 2      \* length of an assigned_user_ids list that may repeat a user id
MaxInflight == 1    \* task requests between their validation and their commit

-----------------------------------------------------------------------------
(* Values *)

NULL == 0           \* Python None / SQL NULL in an Optional[int] or Optional[date] field
UNSET == -1         \* a field left out of the request body (dict(exclude_unset=True))
Today == 1          \* date.today()

\* The registered users: one admin, two project managers, an engineer, a technician.
InitialUsers ==
    (1 :> "admin") @@ (2 :> "project_manager") @@ (3 :> "project_manager")
        @@ (4 :> "engineer") @@ (5 :> "technician")

UserIds == DOMAIN InitialUsers
NoSuchUser == Cardinality(UserIds) + 1      \* a user_id with no row in users

\* register_user adds a user_settings row with the column defaults for each new user
InitialSettings == [k \in 1 .. Cardinality(UserIds) |-> [user_id |-> k, theme |-> "light"]]

ProjectIds == 1 .. MaxProjects
TaskIds == 1 .. MaxTasks

TeamPool == {u \in UserIds : InitialUsers[u] \in {"engineer", "technician"}}

RECURSIVE SeqsUpTo(_, _)
SeqsUpTo(S, n) ==
    IF n = 0 THEN {<<>>}
    ELSE LET shorter == SeqsUpTo(S, n - 1)
         IN  shorter \cup {Append(s, x) : s \in shorter, x \in S}

\* ProjectCreate.assigned_user_ids / ProjectUpdate.assigned_user_ids
TeamLists == SeqsUpTo(TeamPool, MaxTeam)

TaskStatuses == {"pending", "completed"}

\* request bodies
TaskCreateBodies ==
    [project_id : ProjectIds,
     assigned_to : {NULL, NoSuchUser} \cup TeamPool,
     status : TaskStatuses]

\* a TaskUpdate sets the placement of the task (project_id, assigned_to) or its
\* progress (status, completion_date)
TaskUpdateBodies ==
    {b \in [project_id : {UNSET, NULL} \cup ProjectIds,
            assigned_to : {UNSET, NULL, NoSuchUser} \cup TeamPool,
            status : {"unset"} \cup TaskStatuses,
            completion_date : {UNSET, NULL, Today}] :
        \/ b.project_id = UNSET /\ b.assigned_to = UNSET
        \/ b.status = "unset" /\ b.completion_date = UNSET}

-----------------------------------------------------------------------------
(* Queries *)

Range(s) == {s[i] : i \in DOMAIN s}

ProjectExists(pid) == pid \in DOMAIN projects
TaskExists(tid) == tid \in DOMAIN tasks

\* db.query(ProjectAssignment).filter(project_id == pid, user_id == uid).first()
IsAssigned(pid, uid) == pid \in DOMAIN assignments /\ uid \in Range(assignments[pid])

\* the team of a project: the users with a ProjectAssignment row for it
Team(pid) == IF pid \in DOMAIN assignments THEN Range(assignments[pid]) ELSE {}

Response(op, code) == [op |-> op, code |-> code]

\* a response that carries a body: the ids of the rows returned, or the counts
ResponseWith(op, code, body) == [op |-> op, code |-> code, body |-> body]

\* the rows of a query with no ORDER BY come back in primary-key order: the ids in
\* S, ascending
RECURSIVE IdsInOrder(_)
IdsInOrder(S) ==
    IF S = {} THEN <<>>
    ELSE LET m == CHOOSE x \in S : \A y \in S : x <= y
         IN  <<m>> \o IdsInOrder(S \ {m})

\* query.offset(skip).limit(limit).all()
Paginate(rows, skip, limit) ==
    SubSeq(rows, skip + 1, IF Len(rows) < skip + limit THEN Len(rows) ELSE skip + limit)

DefaultSkip == 0        \* skip: int = 0
DefaultLimit == 100     \* limit: int = 100

\* the (skip, limit) pairs of the list requests
Pages == {<<DefaultSkip, DefaultLimit>>, <<1, 1>>}

-----------------------------------------------------------------------------
(* routers/tasks.py *)

\* a slip validate_task_assignment could make: no early return for an absent assignee
validate_task_assignment_no_unassigned(project_id, assigned_to) ==
    IF assigned_to \notin DOMAIN users THEN "user_not_found"
    ELSE IF ~ProjectExists(project_id) THEN "project_not_found"
    ELSE IF ~IsAssigned(project_id, assigned_to) THEN "not_team_member"
    ELSE "ok"

validate_task_assignment(project_id, assigned_to) ==
    IF assigned_to = NULL THEN "ok"
    ELSE IF assigned_to \notin DOMAIN users THEN "user_not_found"
    ELSE IF ~ProjectExists(project_id) THEN "project_not_found"
    ELSE IF ~IsAssigned(project_id, assigned_to) THEN "not_team_member"
    ELSE "ok"

\* a slip validate_task_assignment could make: one status for every failure
ValidationCode_not_found(v) == IF v = "ok" THEN 200 ELSE 404

\* the status code of the HTTPException validate_task_assignment raises
ValidationCode(v) ==
    CASE v = "user_not_found" -> 404
      [] v = "project_not_found" -> 404
      [] v = "not_team_member" -> 400
      [] OTHER -> 200

\* a slip update_task could make: validate against the project the task is in now
final_project_id_prior(task, upd) == task.project_id

\* update_data.get('project_id', task.project_id): the project the assignment is
\* validated against (tasks.py:174)
final_project_id(task, upd) ==
    IF upd.project_id = UNSET THEN task.project_id ELSE upd.project_id

\* update_data.get('assigned_to', task.assigned_to) (tasks.py:204)
final_assigned_to(task, upd) ==
    IF upd.assigned_to = UNSET THEN task.assigned_to ELSE upd.assigned_to

\* update_task, the "project_id change" block (tasks.py:177-200): 200 when it lets the
\* request through
update_task_move_code(u, task, upd) ==
    IF upd.project_id \in {UNSET, NULL} THEN 200
    ELSE IF ~ProjectExists(upd.project_id) THEN 404
    ELSE IF users[u] = "project_manager"
         THEN IF projects[upd.project_id].created_by # u THEN 403
              ELSE IF /\ ProjectExists(task.project_id)
                      /\ projects[task.project_id].created_by # u THEN 403
              ELSE 200
    ELSE 200

\* update_task, the "assignment change" block (tasks.py:204-213)
update_task_assign_code(task, upd) ==
    IF upd.assigned_to # UNSET \/ upd.project_id # UNSET
    THEN IF upd.assigned_to = NULL THEN 200
         ELSE ValidationCode(validate_task_assignment(final_project_id(task, upd),
                                                      final_assigned_to(task, upd)))
    ELSE 200

\* the row after "for field, value in update_data.items(): setattr(task, field, value)"
updated_task(task, upd) ==
    [project_id |-> IF upd.project_id = UNSET THEN task.project_id ELSE upd.project_id,
     assigned_to |-> IF upd.assigned_to = UNSET THEN task.assigned_to ELSE upd.assigned_to,
     status |-> IF upd.status = "unset" THEN task.status ELSE upd.status,
     completion_date |-> IF upd.completion_date = UNSET THEN task.completion_date
                         ELSE upd.completion_date]

\* the status code update_task answers with
update_task_code(u, tid, upd) ==
    IF ~TaskExists(tid) THEN 404
    ELSE IF update_task_move_code(u, tasks[tid], upd) # 200
         THEN update_task_move_code(u, tasks[tid], upd)
    ELSE IF update_task_assign_code(tasks[tid], upd) # 200
         THEN update_task_assign_code(tasks[tid], upd)
    ELSE IF updated_task(tasks[tid], upd).project_id = NULL
         THEN 500     \* tasks.project_id is nullable=False: the commit raises IntegrityError
    ELSE 200

\* a slip update_task could make: the setattr loop ahead of the assignment validation,
\* so that a request rejected with 400 has already written the row
update_task_write_first(u, tid, upd) ==
    LET code == update_task_code(u, tid, upd) IN
    /\ last' = Response("update_task", code)
    /\ tasks' = IF code \in {200, 400}
                THEN [tasks EXCEPT ![tid] = updated_task(tasks[tid], upd)]
                ELSE tasks
    /\ UNCHANGED <<rest, files, users, projects, assignments, last_project_id, last_task_id>>

update_task(u, tid, upd) ==
    LET code == update_task_code(u, tid, upd) IN
    /\ last' = Response("update_task", code)
    /\ tasks' = IF code = 200
                THEN [tasks EXCEPT ![tid] = updated_task(tasks[tid], upd)]
                ELSE tasks
    /\ UNCHANGED <<rest, files, users, projects, assignments, last_project_id, last_task_id>>

\* the row create_task inserts: Task(**task.dict()); TaskCreate has no completion_date
new_task(body) ==
    [project_id |-> body.project_id,
     assigned_to |-> body.assigned_to,
     status |-> body.status,
     completion_date |-> NULL]

\* the status code create_task answers with when the insert goes through
create_task_code(u, body) ==
    IF validate_task_assignment(body.project_id, body.assigned_to) # "ok"
    THEN ValidationCode(validate_task_assignment(body.project_id, body.assigned_to))
    ELSE 201

\* create_task.  The handler does not look the project up when assigned_to is null;
\* whether the insert of a row whose project_id has no project succeeds is up to the
\* storage engine (foreign key enforced: IntegrityError, 500; not enforced: stored).
create_task(u, body) ==
    /\ last_task_id < MaxTasks
    /\ UNCHANGED <<rest, files, users, projects, assignments, last_project_id>>
    /\ IF create_task_code(u, body) # 201
       THEN /\ last' = Response("create_task", create_task_code(u, body))
            /\ UNCHANGED <<tasks, last_task_id>>
       ELSE \/ /\ last' = Response("create_task", 201)
               /\ last_task_id' = last_task_id + 1
               /\ tasks' = (last_task_id + 1 :> new_task(body)) @@ tasks
            \/ /\ ~ProjectExists(body.project_id)
               /\ last' = Response("create_task", 500)
               /\ UNCHANGED <<tasks, last_task_id>>

get_task_code(u, tid) == IF ~TaskExists(tid) THEN 404 ELSE 200

get_task(u, tid) ==
    /\ last' = Response("get_task", get_task_code(u, tid))
    /\ UNCHANGED store

delete_task_code(u, tid) == IF ~TaskExists(tid) THEN 404 ELSE 204

delete_task(u, tid) ==
    /\ last' = Response("delete_task", delete_task_code(u, tid))
    /\ tasks' = IF delete_task_code(u, tid) = 204
                THEN [t \in DOMAIN tasks \ {tid} |-> tasks[t]]
                ELSE tasks
    /\ UNCHANGED <<rest, files, users, projects, assignments, last_project_id, last_task_id>>

mark_task_done_code(u, tid) ==
    IF ~TaskExists(tid) THEN 404
    ELSE IF users[u] \notin {"admin", "project_manager", "engineer", "technician"} THEN 403
    ELSE IF users[u] \in {"engineer", "technician"} /\ tasks[tid].assigned_to # u THEN 403
    ELSE IF /\ users[u] = "project_manager"
            /\ ProjectExists(tasks[tid].project_id)
            /\ projects[tasks[tid].project_id].created_by # u THEN 403
    ELSE 200

mark_task_done(u, tid) ==
    /\ last' = Response("mark_task_done", mark_task_done_code(u, tid))
    /\ tasks' = IF mark_task_done_code(u, tid) = 200
                THEN [tasks EXCEPT ![tid].status = "completed",
                                   ![tid].completion_date = Today]
                ELSE tasks
    /\ UNCHANGED <<rest, files, users, projects, assignments, last_project_id, last_task_id>>

\* a slip get_tasks could make: the project_manager branch without its filter
get_tasks_query_unfiltered(u) == DOMAIN tasks

\* get_tasks, the role branches (tasks.py:64-77): the tasks the query is filtered to
get_tasks_query(u) ==
    IF users[u] = "admin" THEN DOMAIN tasks
    ELSE IF users[u] = "project_manager"
         THEN {t \in DOMAIN tasks :
                  tasks[t].project_id \in {p \in DOMAIN projects : projects[p].created_by = u}}
    ELSE {t \in DOMAIN tasks : tasks[t].assigned_to = u}

\* the task ids get_tasks returns; "if project_id:" skips the filter for None and 0
get_tasks_rows(u, project_id, skip, limit) ==
    Paginate(IdsInOrder({t \in get_tasks_query(u) :
                            project_id = NULL \/ tasks[t].project_id = project_id}),
             skip, limit)

get_tasks(u, project_id, skip, limit) ==
    /\ last' = ResponseWith("get_tasks", 200, get_tasks_rows(u, project_id, skip, limit))
    /\ UNCHANGED store

-----------------------------------------------------------------------------
(* routers/tasks.py, one request in two steps.  The handlers are plain `def` *)
(* functions, which FastAPI runs on a thread pool, each with its own         *)
(* session; no query locks a row.  A request reads the team when it          *)
(* validates and writes the task when it commits, and another request may    *)
(* commit in between.                                                        *)

\* create_task up to and including validate_task_assignment
create_task_validate(u, body) ==
    /\ last_task_id < MaxTasks
    /\ Cardinality(inflight) < MaxInflight
    /\ IF create_task_code(u, body) # 201
       THEN /\ last' = Response("create_task", create_task_code(u, body))
            /\ UNCHANGED inflight
       ELSE /\ inflight' = inflight \cup {[op |-> "create_task", tid |-> NULL, body |-> body]}
            /\ UNCHANGED last
    /\ UNCHANGED <<files, inventory, last_item_id, settings, users, projects, assignments,
                   tasks, last_project_id, last_task_id>>

\* create_task from Task(**task.dict()) on: the insert and the commit
create_task_commit(r) ==
    /\ r \in inflight
    /\ r.op = "create_task"
    /\ inflight' = inflight \ {r}
    /\ UNCHANGED <<files, inventory, last_item_id, settings, users, projects, assignments,
                   last_project_id>>
    /\ \/ /\ last' = Response("create_task", 201)
          /\ last_task_id' = last_task_id + 1
          /\ tasks' = (last_task_id + 1 :> new_task(r.body)) @@ tasks
       \/ /\ ~ProjectExists(r.body.project_id)
          /\ last' = Response("create_task", 500)
          /\ UNCHANGED <<tasks, last_task_id>>

\* update_task up to and including validate_task_assignment
update_task_validate(u, tid, upd) ==
    /\ Cardinality(inflight) < MaxInflight
    /\ IF update_task_code(u, tid, upd) # 200
       THEN /\ last' = Response("update_task", update_task_code(u, tid, upd))
            /\ UNCHANGED inflight
       ELSE /\ inflight' = inflight \cup {[op |-> "update_task", tid |-> tid, body |-> upd]}
            /\ UNCHANGED last
    /\ UNCHANGED <<files, inventory, last_item_id, settings, users, projects, assignments,
                   tasks, last_project_id, last_task_id>>

\* update_task from the setattr loop on: the changed columns are written and committed
update_task_commit(r) ==
    /\ r \in inflight
    /\ r.op = "update_task"
    /\ TaskExists(r.tid)
    /\ inflight' = inflight \ {r}
    /\ last' = Response("update_task", 200)
    /\ tasks' = [tasks EXCEPT ![r.tid] = updated_task(tasks[r.tid], r.body)]
    /\ UNCHANGED <<files, inventory, last_item_id, settings, users, projects, assignments,
                   last_project_id, last_task_id>>

-----------------------------------------------------------------------------
(* routers/projects.py *)

NoTeamList == <<UNSET>>     \* assigned_user_ids left out of (or null in) a ProjectUpdate

ProjectUpdateBodies == [assigned_user_ids : {NoTeamList} \cup TeamLists]
ProjectCreateBodies == [assigned_user_ids : TeamLists]

get_project_code(u, pid) == IF ~ProjectExists(pid) THEN 404 ELSE 200

get_project(u, pid) ==
    /\ last' = Response("get_project", get_project_code(u, pid))
    /\ UNCHANGED store

create_project_code(u, body) ==
    IF users[u] \notin {"admin", "project_manager"} THEN 403 ELSE 201

create_project(u, body) ==
    /\ last_project_id < MaxProjects
    /\ last' = Response("create_project", create_project_code(u, body))
    /\ UNCHANGED <<rest, files, users, tasks, last_task_id>>
    /\ IF create_project_code(u, body) = 201
       THEN /\ last_project_id' = last_project_id + 1
            /\ projects' = (last_project_id + 1 :> [created_by |-> u]) @@ projects
            /\ assignments' = (last_project_id + 1 :> body.assigned_user_ids) @@ assignments
       ELSE UNCHANGED <<projects, assignments, last_project_id>>

update_project_code(u, pid, body) == IF ~ProjectExists(pid) THEN 404 ELSE 200

\* a slip update_project could make: the updater written into created_by
update_project_takes_over(u, pid, body) ==
    /\ last' = Response("update_project", update_project_code(u, pid, body))
    /\ assignments' = IF /\ update_project_code(u, pid, body) = 200
                         /\ body.assigned_user_ids # NoTeamList
                      THEN [assignments EXCEPT ![pid] = body.assigned_user_ids]
                      ELSE assignments
    /\ projects' = IF update_project_code(u, pid, body) = 200
                   THEN [projects EXCEPT ![pid].created_by = u]
                   ELSE projects
    /\ UNCHANGED <<rest, files, users, tasks, last_project_id, last_task_id>>

\* ProjectUpdate has no created_by field: the setattr loop leaves the column alone
update_project(u, pid, body) ==
    /\ last' = Response("update_project", update_project_code(u, pid, body))
    /\ assignments' = IF /\ update_project_code(u, pid, body) = 200
                         /\ body.assigned_user_ids # NoTeamList
                      THEN [assignments EXCEPT ![pid] = body.assigned_user_ids]
                      ELSE assignments
    /\ UNCHANGED <<rest, files, users, projects, tasks, last_project_id, last_task_id>>

delete_project_code(u, pid) == IF ~ProjectExists(pid) THEN 404 ELSE 204

\* db.delete(project): the ORM cascades ("all, delete-orphan") to the project's tasks,
\* blueprints and assignments (models.py:60-63)
delete_project(u, pid) ==
    /\ last' = Response("delete_project", delete_project_code(u, pid))
    /\ UNCHANGED <<rest, users, last_project_id, last_task_id, last_blueprint_id>>
    /\ IF delete_project_code(u, pid) = 204
       THEN /\ projects' = [p \in DOMAIN projects \ {pid} |-> projects[p]]
            /\ assignments' = [p \in DOMAIN assignments \ {pid} |-> assignments[p]]
            /\ tasks' = [t \in {x \in DOMAIN tasks : tasks[x].project_id # pid} |-> tasks[t]]
            /\ blueprints' = [b \in {x \in DOMAIN blueprints :
                                        blueprints[x].project_id # pid} |-> blueprints[b]]
       ELSE UNCHANGED <<projects, assignments, tasks, blueprints>>

\* a slip get_projects could make: the engineer/technician branch without its filter
get_projects_query_unfiltered(u) == DOMAIN projects

\* get_projects, the role branches (projects.py:28-40)
get_projects_query(u) ==
    IF users[u] = "admin" THEN DOMAIN projects
    ELSE IF users[u] = "project_manager"
         THEN {p \in DOMAIN projects : projects[p].created_by = u}
    ELSE {p \in DOMAIN projects :
             p \in {a \in DOMAIN assignments : u \in Range(assignments[a])}}

\* the project ids get_projects returns
get_projects_rows(u, skip, limit) == Paginate(IdsInOrder(get_projects_query(u)), skip, limit)

get_projects(u, skip, limit) ==
    /\ last' = ResponseWith("get_projects", 200, get_projects_rows(u, skip, limit))
    /\ UNCHANGED store

-----------------------------------------------------------------------------
(* routers/inventory.py *)

ItemIds == 1 .. MaxItems

\* Quantities start at 1: NULL (0) is the quantity or reorder_level an InventoryUpdate
\* sets with an explicit null, which the nullable columns store.
Quantities == {1, 2, 3}
ReorderLevels == {2}

InventoryCreateBodies == [quantity : Quantities, reorder_level : ReorderLevels]
InventoryUpdateBodies ==
    [quantity : {UNSET, NULL} \cup Quantities, reorder_level : {UNSET, NULL} \cup ReorderLevels]

\* SQL "a <= b": not true when an operand is NULL
LessOrEqual(a, b) == a # NULL /\ b # NULL /\ a <= b

\* the row as InventoryResponse returns it
InventoryResponse(item_id) ==
    [item_id |-> item_id,
     quantity |-> inventory[item_id].quantity,
     reorder_level |-> inventory[item_id].reorder_level]

\* InventoryResponse declares quantity: int and reorder_level: int: a row holding a
\* NULL fails the response validation, and the request answers 500
Serializable(item_id) ==
    inventory[item_id].quantity # NULL /\ inventory[item_id].reorder_level # NULL

ResponseRows(ids) == [k \in 1 .. Len(ids) |-> InventoryResponse(ids[k])]

ListCode(ids) == IF \A k \in 1 .. Len(ids) : Serializable(ids[k]) THEN 200 ELSE 500

\* get_inventory: the item ids of the page; it reads no field of current_user
get_inventory_rows(u, skip, limit) == Paginate(IdsInOrder(DOMAIN inventory), skip, limit)

get_inventory(u, skip, limit) ==
    /\ last' = IF ListCode(get_inventory_rows(u, skip, limit)) = 200
               THEN ResponseWith("get_inventory", 200,
                                 ResponseRows(get_inventory_rows(u, skip, limit)))
               ELSE Response("get_inventory", 500)
    /\ UNCHANGED store

\* get_low_stock: filter(Inventory.quantity <= Inventory.reorder_level)
get_low_stock_rows(u) ==
    IdsInOrder({i \in DOMAIN inventory :
                   LessOrEqual(inventory[i].quantity, inventory[i].reorder_level)})

get_low_stock(u) ==
    /\ last' = IF ListCode(get_low_stock_rows(u)) = 200
               THEN ResponseWith("get_low_stock", 200, ResponseRows(get_low_stock_rows(u)))
               ELSE Response("get_low_stock", 500)
    /\ UNCHANGED store

get_inventory_item_code(u, item_id) ==
    IF item_id \notin DOMAIN inventory THEN 404
    ELSE IF ~Serializable(item_id) THEN 500
    ELSE 200

get_inventory_item(u, item_id) ==
    /\ last' = IF get_inventory_item_code(u, item_id) = 200
               THEN ResponseWith("get_inventory_item", 200, InventoryResponse(item_id))
               ELSE Response("get_inventory_item", get_inventory_item_code(u, item_id))
    /\ UNCHANGED store

\* a slip create_inventory_item could make: no role check
create_inventory_item_code_open(u, body) == 201

create_inventory_item_code(u, body) ==
    IF users[u] \notin {"admin", "project_manager"} THEN 403 ELSE 201

create_inventory_item(u, body) ==
    /\ last_item_id < MaxItems
    /\ last' = Response("create_inventory_item", create_inventory_item_code(u, body))
    /\ IF create_inventory_item_code(u, body) = 201
       THEN /\ last_item_id' = last_item_id + 1
            /\ inventory' = (last_item_id + 1 :> body) @@ inventory
       ELSE UNCHANGED <<inventory, last_item_id>>
    /\ UNCHANGED <<files, settings, inflight, users, projects, assignments, tasks,
                   last_project_id, last_task_id>>

\* the row after the setattr loop of update_inventory_item
updated_item(item, body) ==
    [quantity |-> IF body.quantity = UNSET THEN item.quantity ELSE body.quantity,
     reorder_level |->
        IF body.reorder_level = UNSET THEN item.reorder_level ELSE body.reorder_level]

\* the role check comes first, then the lookup; the commit is done when the response
\* is validated against InventoryResponse
update_inventory_item_code(u, item_id, body) ==
    IF users[u] \notin {"admin", "project_manager"} THEN 403
    ELSE IF item_id \notin DOMAIN inventory THEN 404
    ELSE IF \/ updated_item(inventory[item_id], body).quantity = NULL
            \/ updated_item(inventory[item_id], body).reorder_level = NULL THEN 500
    ELSE 200

update_inventory_item(u, item_id, body) ==
    /\ last' = Response("update_inventory_item", update_inventory_item_code(u, item_id, body))
    /\ inventory' = IF update_inventory_item_code(u, item_id, body) \in {200, 500}
                    THEN [inventory EXCEPT ![item_id] = updated_item(inventory[item_id], body)]
                    ELSE inventory
    /\ UNCHANGED <<files, settings, inflight, users, projects, assignments, tasks,
                   last_project_id, last_task_id,
                   last_item_id>>

delete_inventory_item_code(u, item_id) ==
    IF users[u] \notin {"admin", "project_manager"} THEN 403
    ELSE IF item_id \notin DOMAIN inventory THEN 404
    ELSE 204

delete_inventory_item(u, item_id) ==
    /\ last' = Response("delete_inventory_item", delete_inventory_item_code(u, item_id))
    /\ inventory' = IF delete_inventory_item_code(u, item_id) = 204
                    THEN [i \in DOMAIN inventory \ {item_id} |-> inventory[i]]
                    ELSE inventory
    /\ UNCHANGED <<files, settings, inflight, users, projects, assignments, tasks,
                   last_project_id, last_task_id,
                   last_item_id>>

-----------------------------------------------------------------------------
(* main.py *)

NoRole == "null"    \* users.role is NULL (the column is nullable; UserUpdate.role = None)

\* UserUpdate.role: left out, null, or one of the UserRole values.  The other fields
\* of UserUpdate (email, full_name, phone, is_active) are columns the model does not
\* hold.
UserUpdateBodies ==
    [role : {"unset", NoRole, "admin", "project_manager", "engineer", "technician"}]

update_user_code(u, user_id, body) ==
    IF users[u] # "admin" /\ u # user_id THEN 403
    ELSE IF user_id \notin DOMAIN users THEN 404
    ELSE 200

update_user(u, user_id, body) ==
    /\ last' = Response("update_user", update_user_code(u, user_id, body))
    /\ users' = IF update_user_code(u, user_id, body) = 200 /\ body.role # "unset"
                THEN [users EXCEPT ![user_id] = body.role]
                ELSE users
    /\ UNCHANGED <<rest, files, projects, assignments, tasks, last_project_id, last_task_id>>

\* a slip get_dashboard_stats could make: strictly below the reorder level
low_stock_items_strict ==
    Cardinality({i \in DOMAIN inventory :
                    /\ LessOrEqual(inventory[i].quantity, inventory[i].reorder_level)
                    /\ inventory[i].quantity # inventory[i].reorder_level})

\* db.query(Inventory).filter(quantity <= reorder_level).count() (main.py:160-162)
low_stock_items ==
    Cardinality({i \in DOMAIN inventory :
                    LessOrEqual(inventory[i].quantity, inventory[i].reorder_level)})

\* GET /api/dashboard/stats, the handler the application serves (main.py:150-170).
\* It reads no field of current_user.  active_projects counts on Project.status, a
\* column the model does not hold.
get_dashboard_stats_body(u) ==
    [total_projects |-> Cardinality(DOMAIN projects),
     total_tasks |-> Cardinality(DOMAIN tasks),
     completed_tasks |-> Cardinality({t \in DOMAIN tasks : tasks[t].status = "completed"}),
     low_stock_items |-> low_stock_items]

get_dashboard_stats(u) ==
    /\ last' = ResponseWith("get_dashboard_stats", 200, get_dashboard_stats_body(u))
    /\ UNCHANGED store

-----------------------------------------------------------------------------
(* routers/dashboard.py: a second get_dashboard_stats.  main.py neither imports   *)
(* nor mounts this router (main.py:10, 34-39), so no request reaches it; it is    *)
(* kept as a function of the store and the principal.                             *)

dashboard_stats_code(u) ==
    IF users[u] = NoRole THEN 500
    ELSE IF users[u] \notin {"admin", "project_manager", "engineer", "technician"} THEN 403
    ELSE 200

\* the tasks the role branch counts, open and completed together
dashboard_stats_tasks(u) ==
    IF users[u] = "admin" THEN DOMAIN tasks
    ELSE IF users[u] = "project_manager"
         THEN {t \in DOMAIN tasks :
                  tasks[t].project_id \in {p \in DOMAIN projects : projects[p].created_by = u}}
    ELSE {t \in DOMAIN tasks :
             /\ tasks[t].assigned_to = u
             /\ tasks[t].project_id \in {a \in DOMAIN assignments : u \in Range(assignments[a])}}

dashboard_stats_body(u) ==
    [total_projects |->
        IF users[u] = "admin" THEN Cardinality(DOMAIN projects)
        ELSE IF users[u] = "project_manager"
             THEN Cardinality({p \in DOMAIN projects : projects[p].created_by = u})
        ELSE Cardinality({a \in DOMAIN assignments : u \in Range(assignments[a])}),
     total_tasks |->
        Cardinality({t \in dashboard_stats_tasks(u) : tasks[t].status # "completed"}),
     completed_tasks |->
        Cardinality({t \in dashboard_stats_tasks(u) : tasks[t].status = "completed"}),
     total_inventory |-> Cardinality(DOMAIN inventory),
     low_stock_items |->
        Cardinality({i \in DOMAIN inventory :
                        LessOrEqual(inventory[i].quantity, inventory[i].reorder_level)})]

-----------------------------------------------------------------------------
(* routers/blueprints.py *)

BlueprintIds == 1 .. MaxBlueprints

\* BlueprintUpdate as sent: is_active left out, true or false (description and
\* version are not part of the model)
BlueprintUpdateBodies == [is_active : {"unset", "true", "false"}]

BlueprintExists(blueprint_id) == blueprint_id \in DOMAIN blueprints

\* get_blueprint: the lookup and nothing else; it reads no field of current_user
get_blueprint_code(u, blueprint_id) == IF ~BlueprintExists(blueprint_id) THEN 404 ELSE 200

get_blueprint(u, blueprint_id) ==
    /\ last' = IF get_blueprint_code(u, blueprint_id) = 200
               THEN ResponseWith("get_blueprint", 200, blueprint_id)
               ELSE Response("get_blueprint", get_blueprint_code(u, blueprint_id))
    /\ UNCHANGED store

upload_blueprint_code(u, project_id) ==
    IF users[u] \notin {"admin", "project_manager", "engineer", "technician"} THEN 403
    ELSE IF ~ProjectExists(project_id) THEN 404
    ELSE 200

\* the file is written to the upload directory, then the row is inserted
upload_blueprint(u, project_id) ==
    /\ last_blueprint_id < MaxBlueprints
    /\ last' = Response("upload_blueprint", upload_blueprint_code(u, project_id))
    /\ IF upload_blueprint_code(u, project_id) = 200
       THEN /\ last_blueprint_id' = last_blueprint_id + 1
            /\ blueprints' = (last_blueprint_id + 1 :>
                                [project_id |-> project_id, uploaded_by |-> u,
                                 is_active |-> TRUE, file |-> TRUE]) @@ blueprints
       ELSE UNCHANGED files
    /\ UNCHANGED <<rest, users, projects, assignments, tasks, last_project_id, last_task_id>>

\* a slip download_blueprint could make: no team check for engineers and technicians
download_blueprint_code_open(u, blueprint_id) ==
    IF ~BlueprintExists(blueprint_id) THEN 404
    ELSE IF ~blueprints[blueprint_id].file THEN 404
    ELSE 200

\* the lookup, then the team check for engineers and technicians, then the file on disk
download_blueprint_code(u, blueprint_id) ==
    IF ~BlueprintExists(blueprint_id) THEN 404
    ELSE IF /\ users[u] \in {"engineer", "technician"}
            /\ ~IsAssigned(blueprints[blueprint_id].project_id, u) THEN 403
    ELSE IF ~blueprints[blueprint_id].file THEN 404
    ELSE 200

download_blueprint(u, blueprint_id) ==
    /\ last' = IF download_blueprint_code(u, blueprint_id) = 200
               THEN ResponseWith("download_blueprint", 200, blueprint_id)
               ELSE Response("download_blueprint", download_blueprint_code(u, blueprint_id))
    /\ UNCHANGED store

\* the row after the setattr loop of update_blueprint
updated_blueprint(blueprint, body) ==
    [blueprint EXCEPT !.is_active =
        IF body.is_active = "unset" THEN blueprint.is_active ELSE body.is_active = "true"]

update_blueprint_code(u, blueprint_id, body) ==
    IF users[u] \notin {"admin", "project_manager", "engineer", "technician"} THEN 403
    ELSE IF ~BlueprintExists(blueprint_id) THEN 404
    ELSE 200

update_blueprint(u, blueprint_id, body) ==
    /\ last' = Response("update_blueprint", update_blueprint_code(u, blueprint_id, body))
    /\ blueprints' = IF update_blueprint_code(u, blueprint_id, body) = 200
                     THEN [blueprints EXCEPT
                             ![blueprint_id] = updated_blueprint(blueprints[blueprint_id], body)]
                     ELSE blueprints
    /\ UNCHANGED <<rest, users, projects, assignments, tasks, last_project_id, last_task_id,
                   last_blueprint_id>>

\* a slip delete_blueprint could make: the four roles of update_blueprint
delete_blueprint_code_four_roles(u, blueprint_id) ==
    IF users[u] \notin {"admin", "project_manager", "engineer", "technician"} THEN 403
    ELSE IF ~BlueprintExists(blueprint_id) THEN 404
    ELSE 200

\* the role check comes first, then the lookup
delete_blueprint_code(u, blueprint_id) ==
    IF users[u] \notin {"admin", "project_manager"} THEN 403
    ELSE IF ~BlueprintExists(blueprint_id) THEN 404
    ELSE 200

\* the file is removed from disk and the row is kept with is_active = False
delete_blueprint(u, blueprint_id) ==
    /\ last' = Response("delete_blueprint", delete_blueprint_code(u, blueprint_id))
    /\ blueprints' = IF delete_blueprint_code(u, blueprint_id) = 200
                     THEN [blueprints EXCEPT ![blueprint_id].is_active = FALSE,
                                             ![blueprint_id].file = FALSE]
                     ELSE blueprints
    /\ UNCHANGED <<rest, users, projects, assignments, tasks, last_project_id, last_task_id,
                   last_blueprint_id>>

\* a slip get_blueprints could make: the engineer/technician branch without its filter
get_blueprints_query_unfiltered(u, project_id) ==
    {b \in DOMAIN blueprints :
        /\ blueprints[b].is_active
        /\ project_id # NULL => blueprints[b].project_id = project_id}

\* the active rows, of one project when project_id is given, and for engineers and
\* technicians of the projects they have a ProjectAssignment row for
get_blueprints_query(u, project_id) ==
    {b \in DOMAIN blueprints :
        /\ blueprints[b].is_active
        /\ project_id # NULL => blueprints[b].project_id = project_id
        /\ users[u] \in {"engineer", "technician"} =>
              \E p \in DOMAIN assignments :
                  u \in Range(assignments[p]) /\ blueprints[b].project_id = p}

get_blueprints_rows(u, project_id, skip, limit) ==
    Paginate(IdsInOrder(get_blueprints_query(u, project_id)), skip, limit)

get_blueprints(u, project_id, skip, limit) ==
    /\ last' = ResponseWith("get_blueprints", 200,
                            get_blueprints_rows(u, project_id, skip, limit))
    /\ UNCHANGED store

-----------------------------------------------------------------------------
(* routers/settings.py *)

Themes == {"light", "dark"}

\* UserSettingsUpdate as sent: theme left out or set (the other fields are not part
\* of the model)
UserSettingsUpdateBodies == [theme : {"unset"} \cup Themes]

\* UserSettings(user_id=current_user.user_id): every other column takes its default
DefaultSettings(user_id) == [user_id |-> user_id, theme |-> "light"]

\* the positions of the rows with UserSettings.user_id == user_id
SettingsOf(user_id) == {k \in 1 .. Len(settings) : settings[k].user_id = user_id}

\* .first(): the row with the lowest key
FirstSettings(user_id) == CHOOSE k \in SettingsOf(user_id) : \A j \in SettingsOf(user_id) : k <= j

\* the table without the row at position k
WithoutRow(k) == SubSeq(settings, 1, k - 1) \o SubSeq(settings, k + 1, Len(settings))

\* the table once the principal's row is known to exist
get_user_settings_rows(u) ==
    IF SettingsOf(u) = {} THEN Append(settings, DefaultSettings(u)) ELSE settings

get_user_settings(u) ==
    /\ settings' = get_user_settings_rows(u)
    /\ last' = ResponseWith("get_user_settings", 200,
                            IF SettingsOf(u) = {} THEN DefaultSettings(u)
                            ELSE settings[FirstSettings(u)])
    /\ UNCHANGED <<files, inventory, last_item_id, inflight, users, projects, assignments,
                   tasks, last_project_id, last_task_id>>

\* the row after the setattr loop of update_user_settings
updated_settings(row, body) ==
    [row EXCEPT !.theme = IF body.theme = "unset" THEN row.theme ELSE body.theme]

update_user_settings_rows(u, body) ==
    IF SettingsOf(u) = {}
    THEN Append(settings, updated_settings(DefaultSettings(u), body))
    ELSE [settings EXCEPT
            ![FirstSettings(u)] = updated_settings(settings[FirstSettings(u)], body)]

update_user_settings(u, body) ==
    /\ settings' = update_user_settings_rows(u, body)
    /\ last' = ResponseWith("update_user_settings", 200,
                            IF SettingsOf(u) = {}
                            THEN updated_settings(DefaultSettings(u), body)
                            ELSE updated_settings(settings[FirstSettings(u)], body))
    /\ UNCHANGED <<files, inventory, last_item_id, inflight, users, projects, assignments,
                   tasks, last_project_id, last_task_id>>

\* a slip reset_user_settings could make: the new row added with the old one kept
reset_user_settings_rows_kept(u) == Append(settings, DefaultSettings(u))

\* the existing row is deleted, then a new row with the defaults is added
reset_user_settings_rows(u) ==
    IF SettingsOf(u) = {} THEN Append(settings, DefaultSettings(u))
    ELSE Append(WithoutRow(FirstSettings(u)), DefaultSettings(u))

reset_user_settings(u) ==
    /\ settings' = reset_user_settings_rows(u)
    /\ last' = ResponseWith("reset_user_settings", 200, DefaultSettings(u))
    /\ UNCHANGED <<files, inventory, last_item_id, inflight, users, projects, assignments,
                   tasks, last_project_id, last_task_id>>

-----------------------------------------------------------------------------
(* The system *)

Init ==
    /\ users = InitialUsers
    /\ projects = << >>
    /\ assignments = << >>
    /\ tasks = << >>
    /\ last_project_id = 0
    /\ last_task_id = 0
    /\ inventory = << >>
    /\ last_item_id = 0
    /\ blueprints = << >>
    /\ last_blueprint_id = 0
    /\ settings = InitialSettings
    /\ inflight = {}
    /\ last = Response("start", 200)

CreateProject == \E u \in UserIds, body \in ProjectCreateBodies : create_project(u, body)
UpdateProject ==
    \E u \in UserIds, pid \in ProjectIds, body \in ProjectUpdateBodies :
        update_project(u, pid, body)
DeleteProject == \E u \in UserIds, pid \in ProjectIds : delete_project(u, pid)
GetProject == \E u \in UserIds, pid \in ProjectIds : get_project(u, pid)
CreateTask == \E u \in UserIds, body \in TaskCreateBodies : create_task(u, body)
UpdateTask ==
    \E u \in UserIds, tid \in TaskIds, upd \in TaskUpdateBodies : update_task(u, tid, upd)
DeleteTask == \E u \in UserIds, tid \in TaskIds : delete_task(u, tid)
GetTask == \E u \in UserIds, tid \in TaskIds : get_task(u, tid)
MarkTaskDone == \E u \in UserIds, tid \in TaskIds : mark_task_done(u, tid)

Next ==
    \/ CreateProject
    \/ UpdateProject
    \/ DeleteProject
    \/ GetProject
    \/ CreateTask
    \/ UpdateTask
    \/ DeleteTask
    \/ GetTask
    \/ MarkTaskDone

Spec == Init /\ [][Next]_vars

TypeOK ==
    /\ DOMAIN projects \subseteq ProjectIds
    /\ DOMAIN assignments = DOMAIN projects
    /\ DOMAIN tasks \subseteq TaskIds
    /\ last_project_id \in 0 .. MaxProjects
    /\ last_task_id \in 0 .. MaxTasks

-----------------------------------------------------------------------------
(* The list requests, run against every store of projects, teams and tasks  *)
(* within the bounds.  Each of these stores is one the handlers above can   *)
(* leave behind: create_project sets any creator and team, update_project   *)
(* replaces a team without looking at the tasks, create_task and            *)
(* update_task set project, assignee and status, delete_task and            *)
(* delete_project remove rows; a task whose project is gone is one          *)
(* create_task stored without an assignee.                                  *)

Managers == {u \in UserIds : InitialUsers[u] \in {"admin", "project_manager"}}

ListTaskIds == 1 .. MaxListTasks

ListTaskRows ==
    {r \in [project_id : ProjectIds,
            assigned_to : {NULL} \cup TeamPool,
            status : TaskStatuses,
            completion_date : {NULL, Today}] :
        r.completion_date = IF r.status = "completed" THEN Today ELSE NULL}

ListInit ==
    /\ users = InitialUsers
    /\ \E P \in SUBSET ProjectIds :
          /\ projects \in [P -> [created_by : Managers]]
          /\ assignments \in [P -> TeamLists]
    /\ \E T \in SUBSET ListTaskIds : tasks \in [T -> ListTaskRows]
    /\ \A t \in DOMAIN tasks :
          ~ProjectExists(tasks[t].project_id) => tasks[t].assigned_to = NULL
    /\ last_project_id = MaxProjects
    /\ last_task_id = MaxListTasks
    /\ inventory = << >>
    /\ last_item_id = 0
    /\ blueprints = << >>
    /\ last_blueprint_id = 0
    /\ settings = InitialSettings
    /\ inflight = {}
    /\ last = Response("start", 200)

GetTasks ==
    \E u \in UserIds, project_id \in {NULL} \cup ProjectIds, page \in Pages :
        get_tasks(u, project_id, page[1], page[2])
GetProjects == \E u \in UserIds, page \in Pages : get_projects(u, page[1], page[2])

ListNext == GetTasks \/ GetProjects

SpecLists == ListInit /\ [][ListNext]_vars

-----------------------------------------------------------------------------
(* The handlers of main.py, routers/projects.py and routers/tasks.py with    *)
(* update_user changing roles.  The requests come from the admin and from    *)
(* the technician, whose role update_user rewrites.                          *)

AccessPrincipals == {1, 5}
AccessTarget == 5

\* a TaskUpdate that sets the placement of the task
PlacementBodies == {b \in TaskUpdateBodies : b.status = "unset" /\ b.completion_date = UNSET}

AccessUpdateUser ==
    \E u \in AccessPrincipals, body \in UserUpdateBodies : update_user(u, AccessTarget, body)
AccessCreateProject ==
    \E u \in AccessPrincipals, body \in ProjectCreateBodies : create_project(u, body)
AccessGetProject == \E u \in AccessPrincipals, pid \in ProjectIds : get_project(u, pid)
AccessGetProjects == \E u \in AccessPrincipals : get_projects(u, DefaultSkip, DefaultLimit)
AccessCreateTask ==
    \E u \in AccessPrincipals, body \in TaskCreateBodies : create_task(u, body)
AccessUpdateTask ==
    \E u \in AccessPrincipals, tid \in TaskIds, upd \in PlacementBodies :
        update_task(u, tid, upd)
AccessDeleteTask == \E u \in AccessPrincipals, tid \in TaskIds : delete_task(u, tid)
AccessGetTask == \E u \in AccessPrincipals, tid \in TaskIds : get_task(u, tid)
AccessGetTasks ==
    \E u \in AccessPrincipals : get_tasks(u, NULL, DefaultSkip, DefaultLimit)
AccessGetDashboardStats == \E u \in AccessPrincipals : get_dashboard_stats(u)

AccessNext ==
    \/ AccessUpdateUser
    \/ AccessCreateProject
    \/ AccessGetProject
    \/ AccessGetProjects
    \/ AccessCreateTask
    \/ AccessUpdateTask
    \/ AccessDeleteTask
    \/ AccessGetTask
    \/ AccessGetTasks
    \/ AccessGetDashboardStats

SpecAccess == Init /\ [][AccessNext]_vars

-----------------------------------------------------------------------------
(* The inventory handlers and the dashboard stats, requested by every user *)

GetInventory == \E u \in UserIds, page \in Pages : get_inventory(u, page[1], page[2])
GetLowStock == \E u \in UserIds : get_low_stock(u)
GetInventoryItem == \E u \in UserIds, item_id \in ItemIds : get_inventory_item(u, item_id)
CreateInventoryItem ==
    \E u \in UserIds, body \in InventoryCreateBodies : create_inventory_item(u, body)
UpdateInventoryItem ==
    \E u \in UserIds, item_id \in ItemIds, body \in InventoryUpdateBodies :
        update_inventory_item(u, item_id, body)
DeleteInventoryItem ==
    \E u \in UserIds, item_id \in ItemIds : delete_inventory_item(u, item_id)
GetDashboardStats == \E u \in UserIds : get_dashboard_stats(u)

InventoryNext ==
    \/ GetInventory
    \/ GetLowStock
    \/ GetInventoryItem
    \/ CreateInventoryItem
    \/ UpdateInventoryItem
    \/ DeleteInventoryItem
    \/ GetDashboardStats

SpecInventory == Init /\ [][InventoryNext]_vars

-----------------------------------------------------------------------------
(* The blueprint handlers, with the project handlers that create, re-team   *)
(* and delete the projects the blueprints belong to.  The requests come     *)
(* from the admin, the engineer and the technician.                         *)

BlueprintPrincipals == {1, 4, 5}

BlueprintsCreateProject ==
    \E u \in BlueprintPrincipals, body \in ProjectCreateBodies : create_project(u, body)
BlueprintsUpdateProject ==
    \E u \in BlueprintPrincipals, pid \in ProjectIds, body \in ProjectUpdateBodies :
        update_project(u, pid, body)
BlueprintsDeleteProject ==
    \E u \in BlueprintPrincipals, pid \in ProjectIds : delete_project(u, pid)
UploadBlueprint ==
    \E u \in BlueprintPrincipals, project_id \in ProjectIds : upload_blueprint(u, project_id)
GetBlueprint ==
    \E u \in BlueprintPrincipals, blueprint_id \in BlueprintIds : get_blueprint(u, blueprint_id)
DownloadBlueprint ==
    \E u \in BlueprintPrincipals, blueprint_id \in BlueprintIds :
        download_blueprint(u, blueprint_id)
UpdateBlueprint ==
    \E u \in BlueprintPrincipals, blueprint_id \in BlueprintIds,
       body \in BlueprintUpdateBodies :
        update_blueprint(u, blueprint_id, body)
DeleteBlueprint ==
    \E u \in BlueprintPrincipals, blueprint_id \in BlueprintIds :
        delete_blueprint(u, blueprint_id)
GetBlueprints ==
    \E u \in BlueprintPrincipals, project_id \in {NULL} \cup ProjectIds, page \in Pages :
        get_blueprints(u, project_id, page[1], page[2])

BlueprintsNext ==
    \/ BlueprintsCreateProject
    \/ BlueprintsUpdateProject
    \/ BlueprintsDeleteProject
    \/ UploadBlueprint
    \/ GetBlueprint
    \/ DownloadBlueprint
    \/ UpdateBlueprint
    \/ DeleteBlueprint
    \/ GetBlueprints

SpecBlueprints == Init /\ [][BlueprintsNext]_vars

-----------------------------------------------------------------------------
(* The settings handlers, requested by one user of each role.  register_user *)
(* commits the user before it adds the user's settings row, and the handlers *)
(* provide for a user whose row is missing: the store starts with the rows   *)
(* of any subset of these users.                                             *)

SettingsPrincipals == {1, 2, 4, 5}

SettingsInit ==
    /\ users = InitialUsers
    /\ projects = << >>
    /\ assignments = << >>
    /\ tasks = << >>
    /\ last_project_id = 0
    /\ last_task_id = 0
    /\ inventory = << >>
    /\ last_item_id = 0
    /\ blueprints = << >>
    /\ last_blueprint_id = 0
    /\ \E S \in SUBSET SettingsPrincipals :
          settings = SelectSeq(InitialSettings,
                               LAMBDA r : r.user_id \in S \cup (UserIds \ SettingsPrincipals))
    /\ inflight = {}
    /\ last = Response("start", 200)

GetUserSettings == \E u \in SettingsPrincipals : get_user_settings(u)
UpdateUserSettings ==
    \E u \in SettingsPrincipals, body \in UserSettingsUpdateBodies :
        update_user_settings(u, body)
ResetUserSettings == \E u \in SettingsPrincipals : reset_user_settings(u)

SettingsNext ==
    \/ GetUserSettings
    \/ UpdateUserSettings
    \/ ResetUserSettings

SpecSettings == SettingsInit /\ [][SettingsNext]_vars

-----------------------------------------------------------------------------
(* The project handlers, with assigned_user_ids lists long enough to name a *)
(* user twice.  The requests come from the admin and a project manager.     *)

IdLists == SeqsUpTo(TeamPool, MaxIdList)

TeamsPrincipals == {1, 2}

TeamsCreateProject ==
    \E u \in TeamsPrincipals, ids \in IdLists :
        create_project(u, [assigned_user_ids |-> ids])
TeamsUpdateProject ==
    \E u \in TeamsPrincipals, pid \in ProjectIds, ids \in {NoTeamList} \cup IdLists :
        update_project(u, pid, [assigned_user_ids |-> ids])
TeamsDeleteProject == \E u \in TeamsPrincipals, pid \in ProjectIds : delete_project(u, pid)
TeamsGetProject == \E u \in TeamsPrincipals, pid \in ProjectIds : get_project(u, pid)

TeamsNext ==
    \/ TeamsCreateProject
    \/ TeamsUpdateProject
    \/ TeamsDeleteProject
    \/ TeamsGetProject

SpecTeams == Init /\ [][TeamsNext]_vars

-----------------------------------------------------------------------------
(* The handlers that write projects, tasks and blueprints.  The project     *)
(* requests come from the two project managers, the task and blueprint      *)
(* requests from the second of them.                                        *)

OwnerPrincipals == {2, 3}
OwnerOther == 3

\* a TaskCreate for a pending task
PendingBodies == {b \in TaskCreateBodies : b.status = "pending"}

OwnerCreateProject ==
    \E u \in OwnerPrincipals, body \in ProjectCreateBodies : create_project(u, body)
OwnerUpdateProject ==
    \E u \in OwnerPrincipals, pid \in ProjectIds, body \in ProjectUpdateBodies :
        update_project(u, pid, body)
OwnerDeleteProject == \E u \in OwnerPrincipals, pid \in ProjectIds : delete_project(u, pid)
OwnerCreateTask == \E body \in PendingBodies : create_task(OwnerOther, body)
OwnerUpdateTask ==
    \E tid \in TaskIds, upd \in PlacementBodies : update_task(OwnerOther, tid, upd)
OwnerDeleteTask == \E tid \in TaskIds : delete_task(OwnerOther, tid)
OwnerUploadBlueprint == \E project_id \in ProjectIds : upload_blueprint(OwnerOther, project_id)
OwnerUpdateBlueprint ==
    \E blueprint_id \in BlueprintIds, body \in BlueprintUpdateBodies :
        update_blueprint(OwnerOther, blueprint_id, body)
OwnerDeleteBlueprint ==
    \E blueprint_id \in BlueprintIds : delete_blueprint(OwnerOther, blueprint_id)

OwnerNext ==
    \/ OwnerCreateProject
    \/ OwnerUpdateProject
    \/ OwnerDeleteProject
    \/ OwnerCreateTask
    \/ OwnerUpdateTask
    \/ OwnerDeleteTask
    \/ OwnerUploadBlueprint
    \/ OwnerUpdateBlueprint
    \/ OwnerDeleteBlueprint

SpecOwner == Init /\ [][OwnerNext]_vars

-----------------------------------------------------------------------------
(* Task requests running at the same time as project requests: the admin    *)
(* creates and updates tasks while a project manager creates projects and   *)
(* replaces their teams.                                                    *)

RaceManager == 2
RaceClient == 1

\* a TaskUpdate that sets the project, the assignee or both, and so is validated
RaceUpdateBodies ==
    {b \in PlacementBodies :
        b.project_id # NULL /\ (b.project_id # UNSET \/ b.assigned_to # UNSET)}

RaceCreateProject == \E body \in ProjectCreateBodies : create_project(RaceManager, body)
RaceUpdateProject ==
    \E pid \in ProjectIds, body \in ProjectUpdateBodies : update_project(RaceManager, pid, body)
CreateTaskValidate == \E body \in PendingBodies : create_task_validate(RaceClient, body)
CreateTaskCommit == \E r \in inflight : create_task_commit(r)
UpdateTaskValidate ==
    \E tid \in TaskIds, upd \in RaceUpdateBodies : update_task_validate(RaceClient, tid, upd)
UpdateTaskCommit == \E r \in inflight : update_task_commit(r)

RaceNext ==
    \/ RaceCreateProject
    \/ RaceUpdateProject
    \/ CreateTaskValidate
    \/ CreateTaskCommit
    \/ UpdateTaskValidate
    \/ UpdateTaskCommit

SpecRace == Init /\ [][RaceNext]_vars

-----------------------------------------------------------------------------
(* The access rules of the specification (section 4.1), as predicates *)

FieldRoles == {"engineer", "technician"}

\* Project update/delete: admin, or the project_manager who created the project
MayManageProject(u, pid) ==
    \/ users[u] = "admin"
    \/ users[u] = "project_manager" /\ ProjectExists(pid) /\ projects[pid].created_by = u

\* Project read-one: as above, or an engineer/technician on the project's team
MayReadProject(u, pid) ==
    \/ MayManageProject(u, pid)
    \/ users[u] \in FieldRoles /\ IsAssigned(pid, u)

\* "within own projects": the task's project was created by the principal
TaskInOwnProject(u, tid) ==
    /\ TaskExists(tid)
    /\ ProjectExists(tasks[tid].project_id)
    /\ projects[tasks[tid].project_id].created_by = u

TaskIsMine(u, tid) == TaskExists(tid) /\ tasks[tid].assigned_to = u

\* a TaskUpdate that changes only the listed fields
JustProject(pid) ==
    [project_id |-> pid, assigned_to |-> UNSET, status |-> "unset", completion_date |-> UNSET]
ProjectAndAssignee(pid, uid) ==
    [project_id |-> pid, assigned_to |-> uid, status |-> "unset", completion_date |-> UNSET]

\* the principal passes the ownership rule for moving task tid to project pid
MayMove(u, tid, pid) ==
    \/ users[u] = "admin"
    \/ /\ users[u] = "project_manager"
       /\ projects[pid].created_by = u
       /\ TaskInOwnProject(u, tid)

-----------------------------------------------------------------------------
(* Claims *)

\* C1: every task's assigned_to is null or a user with a ProjectAssignment row for the
\* task's project_id, in every reachable state (also after update_project replaces
\* the team).
C1_AssigneeOnTeam ==
    \A t \in DOMAIN tasks :
        tasks[t].assigned_to = NULL \/ IsAssigned(tasks[t].project_id, tasks[t].assigned_to)

\* C2: a successful create_task, and a successful update_task whose change set has
\* assigned_to or project_id, leaves the task with an assignee that is null or on the
\* team of the task's final project; moving a task to project B without reassigning
\* is rejected (400) when the assignee is not on B's team, and the same move succeeds
\* when it reassigns to a member of B's team.
C2_Create ==
    \A u \in UserIds, body \in TaskCreateBodies :
        create_task_code(u, body) = 201 =>
            \/ new_task(body).assigned_to = NULL
            \/ new_task(body).assigned_to \in Team(new_task(body).project_id)

C2_Update ==
    \A u \in UserIds, tid \in TaskIds, upd \in TaskUpdateBodies :
        /\ upd.assigned_to # UNSET \/ upd.project_id # UNSET
        /\ update_task_code(u, tid, upd) = 200
        => \/ updated_task(tasks[tid], upd).assigned_to = NULL
           \/ updated_task(tasks[tid], upd).assigned_to
                 \in Team(updated_task(tasks[tid], upd).project_id)

C2_Move ==
    \A u \in UserIds, tid \in DOMAIN tasks, B \in DOMAIN projects :
        tasks[tid].assigned_to \notin {NULL} \cup Team(B) =>
            /\ update_task_code(u, tid, JustProject(B)) \in {400, 403}
            /\ MayMove(u, tid, B) => update_task_code(u, tid, JustProject(B)) = 400
            /\ \A m \in Team(B) :
                  MayMove(u, tid, B) =>
                      /\ update_task_code(u, tid, ProjectAndAssignee(B, m)) = 200
                      /\ updated_task(tasks[tid], ProjectAndAssignee(B, m)).project_id = B
                      /\ updated_task(tasks[tid], ProjectAndAssignee(B, m)).assigned_to = m

\* the steps themselves: what a create_task or update_task step stores is the row the
\* handler built, and a rejected update_task stores nothing
C2_Step ==
    /\ last' = Response("create_task", 201) =>
          /\ last_task_id' \in DOMAIN tasks' \ DOMAIN tasks
          /\ \/ tasks'[last_task_id'].assigned_to = NULL
             \/ tasks'[last_task_id'].assigned_to \in Team(tasks'[last_task_id'].project_id)
    /\ last'.op = "update_task" /\ last'.code # 200 => tasks' = tasks

C2_AssigneeValidAtWrite == [](C2_Create /\ C2_Update /\ C2_Move) /\ [][C2_Step]_vars

\* C2 witness: an update_task succeeded and task 1 sits in project 2 with an assignee
\* who is on project 2's team and not on project 1's.
C2_Witness ==
    /\ last = Response("update_task", 200)
    /\ 1 \in DOMAIN tasks
    /\ {1, 2} \subseteq DOMAIN projects
    /\ tasks[1].project_id = 2
    /\ tasks[1].assigned_to \in Team(2) \ Team(1)
    /\ Team(1) # {}

\* C3: every task's project_id refers to an existing project, in every reachable
\* state: create_task and update_task never store the project_id of a project that
\* does not exist, and delete_project leaves no task of the project behind.
C3_TaskProjectExists ==
    \A t \in DOMAIN tasks : ProjectExists(tasks[t].project_id)

\* C4: update_project and delete_project succeed only for an admin or for the
\* project_manager who created the project; any other principal is denied and the
\* project, its team and its tasks are unchanged.
C4_Step ==
    \A u \in UserIds, pid \in DOMAIN projects :
        ~MayManageProject(u, pid) =>
            /\ \A body \in ProjectUpdateBodies :
                  update_project(u, pid, body) =>
                      last'.code = 403 /\ UNCHANGED <<projects, assignments, tasks>>
            /\ delete_project(u, pid) =>
                  last'.code = 403 /\ UNCHANGED <<projects, assignments, tasks>>

C4_ManageOnlyOwnProject == [][C4_Step]_vars

\* C5: get_project returns an existing project only to an admin, to the
\* project_manager who created it, or to an engineer/technician on its team; any
\* other principal is denied.
C5_Step ==
    \A u \in UserIds, pid \in DOMAIN projects :
        get_project(u, pid) /\ last'.code = 200 => MayReadProject(u, pid)

C5_ReadOnlyVisibleProject == [][C5_Step]_vars

\* C6: create_task is denied for an engineer or technician: after such a call no new
\* task exists.
C6_Step ==
    \A u \in UserIds, body \in TaskCreateBodies :
        users[u] \in FieldRoles /\ create_task(u, body) =>
            last'.code # 201 /\ tasks' = tasks

C6_FieldRolesCreateNoTask == [][C6_Step]_vars

\* C7: for an engineer or technician, get_task, update_task and delete_task succeed
\* on a task only if it is assigned to the principal (delete never succeeds); on any
\* other task the call is denied and the task is unchanged.
C7_Step ==
    \A u \in UserIds, tid \in DOMAIN tasks :
        users[u] \in FieldRoles =>
            /\ get_task(u, tid) /\ last'.code = 200 => TaskIsMine(u, tid)
            /\ \A upd \in TaskUpdateBodies :
                  update_task(u, tid, upd) /\ ~TaskIsMine(u, tid) =>
                      last'.code # 200 /\ tasks' = tasks
            /\ delete_task(u, tid) => last'.code # 204 /\ tasks' = tasks

C7_FieldRolesOwnTasksOnly == [][C7_Step]_vars

\* C8: for a project_manager, update_task and delete_task succeed on a task only if
\* the task's current project was created by the principal, whether or not
\* project_id is in the change set.
C8_Step ==
    \A u \in UserIds, tid \in DOMAIN tasks :
        users[u] = "project_manager" /\ ~TaskInOwnProject(u, tid) =>
            /\ \A upd \in TaskUpdateBodies :
                  update_task(u, tid, upd) => last'.code # 200 /\ tasks' = tasks
            /\ delete_task(u, tid) => last'.code # 204 /\ tasks' = tasks

C8_ManagerOwnProjectsOnly == [][C8_Step]_vars

\* C9: mark_task_done succeeds for an engineer/technician only on a task assigned to
\* them, for a project_manager only on a task whose project they created, and for an
\* admin always; on success the task is completed with a completion_date, and on a
\* 403 the task is unchanged.
MayComplete(u, tid) ==
    \/ users[u] = "admin"
    \/ users[u] \in FieldRoles /\ TaskIsMine(u, tid)
    \/ users[u] = "project_manager" /\ TaskInOwnProject(u, tid)

C9_Step ==
    \A u \in UserIds, tid \in DOMAIN tasks :
        mark_task_done(u, tid) =>
            /\ last'.code = 200 =>
                  /\ MayComplete(u, tid)
                  /\ tasks'[tid].status = "completed"
                  /\ tasks'[tid].completion_date # NULL
            /\ users[u] = "admin" => last'.code = 200
            /\ last'.code = 403 => tasks' = tasks

C9_CompleteOnlyAllowed == [][C9_Step]_vars

\* C10: a task whose status is completed has a non-null completion_date, in every
\* reachable state.
C10_CompletedHasDate ==
    \A t \in DOMAIN tasks :
        tasks[t].status = "completed" => tasks[t].completion_date # NULL

\* the four roles of the specification
Roles == {"admin", "project_manager", "engineer", "technician"}

\* C11: get_tasks with no project filter and no pagination cut returns exactly the
\* tasks the principal's role may see: every task for an admin, the tasks of the
\* projects the principal created for a project_manager, the tasks assigned to the
\* principal for an engineer or technician; each once, and the store is untouched.
VisibleTasks(u) ==
    CASE users[u] = "admin" -> DOMAIN tasks
      [] users[u] = "project_manager" ->
            {t \in DOMAIN tasks : \E p \in DOMAIN projects :
                tasks[t].project_id = p /\ projects[p].created_by = u}
      [] users[u] \in FieldRoles -> {t \in DOMAIN tasks : tasks[t].assigned_to = u}

C11_Rows ==
    \A u \in UserIds :
        users[u] \in Roles =>
            /\ Range(get_tasks_rows(u, NULL, DefaultSkip, DefaultLimit)) = VisibleTasks(u)
            /\ Len(get_tasks_rows(u, NULL, DefaultSkip, DefaultLimit))
                  = Cardinality(VisibleTasks(u))

C11_Step ==
    last'.op = "get_tasks" =>
        /\ UNCHANGED store
        /\ last'.code = 200
        /\ \E u \in UserIds, project_id \in {NULL} \cup ProjectIds, page \in Pages :
              /\ last'.body = get_tasks_rows(u, project_id, page[1], page[2])
              /\ project_id = NULL /\ page = <<DefaultSkip, DefaultLimit>>
                    => Range(last'.body) = VisibleTasks(u)

C11_GetTasksVisibleSet == []C11_Rows /\ [][C11_Step]_vars

\* C11 witness: get_tasks answered with one of two tasks: the store holds two tasks
\* in projects of different creators, one of them assigned to the engineer.
C11_Witness ==
    /\ last = ResponseWith("get_tasks", 200, <<2>>)
    /\ DOMAIN tasks = {1, 2}
    /\ {1, 2} \subseteq DOMAIN projects
    /\ projects[tasks[1].project_id].created_by # projects[tasks[2].project_id].created_by
    /\ tasks[2].assigned_to = 4
    /\ tasks[1].assigned_to # 4

\* C12: get_projects returns exactly the projects the principal's role may see: every
\* project for an admin, the projects with created_by = principal for a
\* project_manager, the projects with a ProjectAssignment row for the principal for
\* an engineer or technician; each once, and the store is untouched.
VisibleProjects(u) ==
    CASE users[u] = "admin" -> DOMAIN projects
      [] users[u] = "project_manager" -> {p \in DOMAIN projects : projects[p].created_by = u}
      [] users[u] \in FieldRoles -> {p \in DOMAIN projects : IsAssigned(p, u)}

C12_Rows ==
    \A u \in UserIds :
        users[u] \in Roles =>
            /\ Range(get_projects_rows(u, DefaultSkip, DefaultLimit)) = VisibleProjects(u)
            /\ Len(get_projects_rows(u, DefaultSkip, DefaultLimit))
                  = Cardinality(VisibleProjects(u))

C12_Step ==
    last'.op = "get_projects" =>
        /\ UNCHANGED store
        /\ last'.code = 200
        /\ \E u \in UserIds, page \in Pages :
              /\ last'.body = get_projects_rows(u, page[1], page[2])
              /\ page = <<DefaultSkip, DefaultLimit>> => Range(last'.body) = VisibleProjects(u)

C12_GetProjectsVisibleSet == []C12_Rows /\ [][C12_Step]_vars

\* C12 witness: get_projects answered with project 2 alone while projects 1 and 2
\* exist, have different creators, and the technician is on the team of project 2 only.
C12_Witness ==
    /\ last = ResponseWith("get_projects", 200, <<2>>)
    /\ DOMAIN projects = {1, 2}
    /\ projects[1].created_by # projects[2].created_by
    /\ IsAssigned(2, 5) /\ ~IsAssigned(1, 5)
    /\ DOMAIN tasks # {}

\* C13: for every role and every reachable store, the dashboard stats agree with the
\* list requests of the same principal: total_tasks + completed_tasks is the number
\* of tasks get_tasks returns (no filter, no pagination cut) and total_projects is the
\* number of projects get_projects returns.
C13_Served ==
    \A u \in UserIds :
        users[u] \in Roles =>
            /\ get_dashboard_stats_body(u).total_tasks + get_dashboard_stats_body(u).completed_tasks
                  = Len(get_tasks_rows(u, NULL, DefaultSkip, DefaultLimit))
            /\ get_dashboard_stats_body(u).total_projects
                  = Len(get_projects_rows(u, DefaultSkip, DefaultLimit))

\* the same agreement for the get_dashboard_stats of routers/dashboard.py
C13_Router ==
    \A u \in UserIds :
        users[u] \in Roles =>
            /\ dashboard_stats_code(u) = 200
            /\ dashboard_stats_body(u).total_tasks + dashboard_stats_body(u).completed_tasks
                  = Len(get_tasks_rows(u, NULL, DefaultSkip, DefaultLimit))
            /\ dashboard_stats_body(u).total_projects
                  = Len(get_projects_rows(u, DefaultSkip, DefaultLimit))

C13_StatsAgreeWithLists == C13_Served /\ C13_Router

\* C14: get_dashboard_stats called by a principal whose role is null or not one of the
\* four roles answers with an error and returns no count.
C14_Step ==
    \A u \in UserIds :
        users[u] \notin Roles /\ get_dashboard_stats(u) =>
            last'.code >= 400 /\ "body" \notin DOMAIN last'

C14_StatsFailClosed == [][C14_Step]_vars

\* C15: for a principal whose role is null or not one of the four roles, get_projects,
\* get_tasks, get_project, get_task, create_task, update_task and delete_task answer
\* with an error: they return no data and leave the store unchanged.
C15_Step ==
    \A u \in UserIds :
        users[u] \notin Roles =>
            /\ \A page \in Pages :
                  get_projects(u, page[1], page[2]) => last'.code >= 400
            /\ \A project_id \in {NULL} \cup ProjectIds, page \in Pages :
                  get_tasks(u, project_id, page[1], page[2]) => last'.code >= 400
            /\ \A pid \in ProjectIds : get_project(u, pid) => last'.code >= 400
            /\ \A tid \in TaskIds : get_task(u, tid) => last'.code >= 400
            /\ \A body \in TaskCreateBodies :
                  create_task(u, body) => last'.code >= 400 /\ UNCHANGED store
            /\ \A tid \in TaskIds, upd \in TaskUpdateBodies :
                  update_task(u, tid, upd) => last'.code >= 400 /\ UNCHANGED store
            /\ \A tid \in TaskIds :
                  delete_task(u, tid) => last'.code >= 400 /\ UNCHANGED store

C15_NoAccessWithoutRole == [][C15_Step]_vars

\* C16: validate_task_assignment with a null assigned_to succeeds whatever the
\* project_id and the membership; update_task with assigned_to explicitly null runs
\* no membership check (never 400), succeeds when nothing else is changed, and
\* whenever it succeeds leaves the task unassigned.
Unassign ==
    [project_id |-> UNSET, assigned_to |-> NULL, status |-> "unset", completion_date |-> UNSET]

C16_Validate ==
    \A project_id \in {NULL} \cup ProjectIds \cup {MaxProjects + 1} :
        validate_task_assignment(project_id, NULL) = "ok"

C16_Update ==
    \A u \in UserIds, tid \in DOMAIN tasks, upd \in TaskUpdateBodies :
        upd.assigned_to = NULL =>
            /\ update_task_assign_code(tasks[tid], upd) = 200
            /\ update_task_code(u, tid, upd) # 400
            /\ upd = Unassign => update_task_code(u, tid, upd) = 200
            /\ update_task_code(u, tid, upd) = 200 =>
                  updated_task(tasks[tid], upd).assigned_to = NULL

C16_Step ==
    last'.op = "update_task" =>
        \A u \in UserIds, tid \in DOMAIN tasks :
            update_task(u, tid, Unassign) =>
                /\ last'.code = 200
                /\ tasks' = [tasks EXCEPT ![tid].assigned_to = NULL]

C16_UnassignNeedsNoMembership == [](C16_Validate /\ C16_Update) /\ [][C16_Step]_vars

\* C16 witness: an update_task succeeded and left task 1 unassigned in a project
\* whose team is empty, while a user who could not be validated against that team
\* is on the team of the other project.
C16_Witness ==
    /\ last = Response("update_task", 200)
    /\ 1 \in DOMAIN tasks
    /\ tasks[1].assigned_to = NULL
    /\ ProjectExists(tasks[1].project_id)
    /\ Team(tasks[1].project_id) = {}
    /\ \E p \in DOMAIN projects : Team(p) # {}

\* C17: for a non-null proposed assignee, validate_task_assignment succeeds exactly
\* when the user exists, the project exists and the user is on the project's team;
\* otherwise it fails with 404 when the user or the project does not exist and with
\* 400 when both exist but the user is not a team member; create_task answers with
\* that failure.
C17_Validate ==
    \A project_id \in ProjectIds \cup {MaxProjects + 1}, assigned_to \in UserIds \cup {NoSuchUser} :
        LET v == validate_task_assignment(project_id, assigned_to)
            user_exists == assigned_to \in DOMAIN users
            project_exists == project_id \in DOMAIN projects
            member == assigned_to \in Team(project_id)
        IN  /\ v = "ok" <=> user_exists /\ project_exists /\ member
            /\ ~user_exists \/ ~project_exists => ValidationCode(v) = 404
            /\ user_exists /\ project_exists /\ ~member => ValidationCode(v) = 400

C17_Create ==
    \A u \in UserIds, body \in TaskCreateBodies :
        body.assigned_to # NULL =>
            create_task_code(u, body) =
                IF body.assigned_to \notin DOMAIN users \/ ~ProjectExists(body.project_id)
                THEN 404
                ELSE IF body.assigned_to \notin Team(body.project_id) THEN 400
                ELSE 201

C17_ValidationOutcome == C17_Validate /\ C17_Create

\* C17 witness: create_task was rejected with 400 while both projects exist, one with
\* the engineer on its team and one with the technician.
C17_Witness ==
    /\ last = Response("create_task", 400)
    /\ DOMAIN projects = {1, 2}
    /\ Team(1) = {4}
    /\ Team(2) = {5}

\* C18: a create_task or update_task call that fails assignment validation (user not
\* found, project not found, not a team member) leaves the whole store unchanged: no
\* task is created, no field of the existing task is modified, and the same call
\* repeated after it fails the same way.
C18_Fails ==
    /\ \A u \in UserIds, body \in TaskCreateBodies :
          validate_task_assignment(body.project_id, body.assigned_to) # "ok" =>
              create_task_code(u, body) \in {400, 404}
    /\ \A u \in UserIds, tid \in DOMAIN tasks, upd \in TaskUpdateBodies :
          /\ update_task_move_code(u, tasks[tid], upd) = 200
          /\ upd.assigned_to # UNSET \/ upd.project_id # UNSET
          /\ upd.assigned_to # NULL
          /\ validate_task_assignment(final_project_id(tasks[tid], upd),
                                      final_assigned_to(tasks[tid], upd)) # "ok"
          => update_task_code(u, tid, upd) \in {400, 404}

C18_Step ==
    /\ last'.op \in {"create_task", "update_task"} /\ last'.code \in {400, 404} =>
          UNCHANGED store
    /\ last'.op = "create_task" /\ last'.code \in {400, 404} =>
          \A u \in UserIds, body \in TaskCreateBodies :
              create_task_code(u, body) = last'.code =>
                  create_task_code(u, body)' = last'.code
    /\ last'.op = "update_task" /\ last'.code \in {400, 404} =>
          \A tid \in DOMAIN tasks, upd \in PlacementBodies :
              update_task_assign_code(tasks[tid], upd) = last'.code =>
                  /\ tid \in DOMAIN tasks'
                  /\ update_task_assign_code(tasks[tid], upd)' = last'.code

C18_FailedValidationWritesNothing == []C18_Fails /\ [][C18_Step]_vars

\* C18 witness: update_task was rejected with 400 and task 1 still holds an assignee
\* who is on the team of the task's project.
C18_Witness ==
    /\ last = Response("update_task", 400)
    /\ 1 \in DOMAIN tasks
    /\ tasks[1].assigned_to # NULL
    /\ tasks[1].assigned_to \in Team(tasks[1].project_id)
    /\ Cardinality(DOMAIN projects) = 2

\* C19: create_inventory_item, update_inventory_item and delete_inventory_item succeed
\* only for an admin or a project_manager and leave the inventory unchanged when
\* denied; get_inventory, get_low_stock and get_inventory_item return the same result
\* whatever the role of the principal.
InventoryManagers == {u \in UserIds : users[u] \in {"admin", "project_manager"}}

C19_Writes ==
    \A u \in UserIds :
        /\ \A body \in InventoryCreateBodies :
              /\ create_inventory_item_code(u, body) = 201 => u \in InventoryManagers
              /\ u \notin InventoryManagers => create_inventory_item_code(u, body) = 403
        /\ \A item_id \in ItemIds, body \in InventoryUpdateBodies :
              /\ update_inventory_item_code(u, item_id, body) = 200 => u \in InventoryManagers
              /\ u \notin InventoryManagers => update_inventory_item_code(u, item_id, body) = 403
        /\ \A item_id \in ItemIds :
              /\ delete_inventory_item_code(u, item_id) = 204 => u \in InventoryManagers
              /\ u \notin InventoryManagers => delete_inventory_item_code(u, item_id) = 403

C19_Reads ==
    \A u \in UserIds, v \in UserIds :
        /\ \A page \in Pages :
              get_inventory_rows(u, page[1], page[2]) = get_inventory_rows(v, page[1], page[2])
        /\ Range(get_inventory_rows(u, DefaultSkip, DefaultLimit)) = DOMAIN inventory
        /\ get_low_stock_rows(u) = get_low_stock_rows(v)
        /\ \A item_id \in ItemIds :
              get_inventory_item_code(u, item_id) = get_inventory_item_code(v, item_id)

C19_Step ==
    /\ last'.code = 403 => UNCHANGED <<inventory, last_item_id>>
    /\ last'.op = "create_inventory_item" =>
          \A u \in UserIds \ InventoryManagers, body \in InventoryCreateBodies :
              create_inventory_item(u, body) => UNCHANGED <<inventory, last_item_id>>
    /\ last'.op = "update_inventory_item" =>
          \A u \in UserIds \ InventoryManagers, item_id \in ItemIds,
             body \in InventoryUpdateBodies :
              update_inventory_item(u, item_id, body) => UNCHANGED <<inventory, last_item_id>>
    /\ last'.op = "delete_inventory_item" =>
          \A u \in UserIds \ InventoryManagers, item_id \in ItemIds :
              delete_inventory_item(u, item_id) => UNCHANGED <<inventory, last_item_id>>
    /\ last'.op = "get_inventory" =>
          \A u \in UserIds, v \in UserIds, page \in Pages :
              get_inventory(u, page[1], page[2]) => get_inventory(v, page[1], page[2])
    /\ last'.op = "get_low_stock" =>
          \A u \in UserIds, v \in UserIds : get_low_stock(u) => get_low_stock(v)
    /\ last'.op = "get_inventory_item" =>
          \A u \in UserIds, v \in UserIds, item_id \in ItemIds :
              get_inventory_item(u, item_id) => get_inventory_item(v, item_id)

C19_InventoryWritesGated == [](C19_Writes /\ C19_Reads) /\ [][C19_Step]_vars

\* C19 witness: an update_inventory_item was denied with 403 while the inventory holds
\* two items.
C19_Witness ==
    /\ last = Response("update_inventory_item", 403)
    /\ DOMAIN inventory = {1, 2}

\* C20: the low_stock_items of the dashboard stats is the number of inventory rows
\* with quantity <= reorder_level, the rows with quantity = reorder_level included,
\* and is the same for every role.
LowStockRows ==
    {i \in DOMAIN inventory :
        /\ inventory[i].quantity \in Quantities
        /\ inventory[i].reorder_level \in ReorderLevels
        /\ ~(inventory[i].quantity > inventory[i].reorder_level)}

C20_Count ==
    \A u \in UserIds :
        /\ get_dashboard_stats_body(u).low_stock_items = Cardinality(LowStockRows)
        /\ dashboard_stats_code(u) = 200 =>
              dashboard_stats_body(u).low_stock_items = Cardinality(LowStockRows)
        /\ Range(get_low_stock_rows(u)) = LowStockRows

C20_Step ==
    last'.op = "get_dashboard_stats" =>
        /\ last'.code = 200
        /\ last'.body.low_stock_items = Cardinality(LowStockRows)
        /\ \A u \in UserIds : get_dashboard_stats(u)
        /\ UNCHANGED store

C20_LowStockCount == []C20_Count /\ [][C20_Step]_vars

\* C20 witness: the stats answered low_stock_items = 1 for an inventory of two items,
\* one exactly at its reorder level and one above it.
C20_Witness ==
    /\ last.op = "get_dashboard_stats"
    /\ last.body.low_stock_items = 1
    /\ DOMAIN inventory = {1, 2}
    /\ inventory[1].quantity = inventory[1].reorder_level
    /\ inventory[1].quantity # NULL
    /\ LessOrEqual(inventory[2].reorder_level, inventory[2].quantity)
    /\ inventory[2].quantity # inventory[2].reorder_level

\* C21: for an engineer or technician, get_blueprint returns the blueprint only if
\* the principal is on the team of the blueprint's project; otherwise the request is
\* denied.
C21_Step ==
    \A u \in BlueprintPrincipals, blueprint_id \in BlueprintIds :
        /\ users[u] \in FieldRoles
        /\ get_blueprint(u, blueprint_id)
        /\ last'.code = 200
        => IsAssigned(blueprints[blueprint_id].project_id, u)

C21_GetBlueprintTeamOnly == [][C21_Step]_vars

\* C22: for an engineer or technician, download_blueprint succeeds, and get_blueprints
\* lists a blueprint, only if a ProjectAssignment row links the principal to the
\* blueprint's project at the time of the call; admins and project managers are not
\* restricted by team: they are never refused a download and their unfiltered list
\* holds every active blueprint.
OnTeamOf(u, blueprint_id) ==
    \E p \in DOMAIN assignments :
        /\ p = blueprints[blueprint_id].project_id
        /\ \E k \in 1 .. Len(assignments[p]) : assignments[p][k] = u

C22_Download ==
    \A u \in UserIds, blueprint_id \in BlueprintIds :
        /\ users[u] \in FieldRoles /\ download_blueprint_code(u, blueprint_id) = 200
              => OnTeamOf(u, blueprint_id)
        /\ users[u] \in {"admin", "project_manager"} =>
              /\ download_blueprint_code(u, blueprint_id) # 403
              /\ BlueprintExists(blueprint_id) /\ blueprints[blueprint_id].file
                    => download_blueprint_code(u, blueprint_id) = 200

C22_List ==
    \A u \in UserIds, project_id \in {NULL} \cup ProjectIds, page \in Pages :
        /\ users[u] \in FieldRoles =>
              \A blueprint_id \in Range(get_blueprints_rows(u, project_id, page[1], page[2])) :
                  OnTeamOf(u, blueprint_id)
        /\ users[u] \in {"admin", "project_manager"} =>
              get_blueprints_rows(u, NULL, DefaultSkip, DefaultLimit)
                  = IdsInOrder({b \in DOMAIN blueprints : blueprints[b].is_active})

C22_Step ==
    /\ last'.op = "download_blueprint" /\ last'.code = 200 =>
          \A u \in BlueprintPrincipals :
              users[u] \in FieldRoles /\ download_blueprint(u, last'.body)
                  => OnTeamOf(u, last'.body)
    /\ last'.op = "get_blueprints" =>
          \A u \in BlueprintPrincipals, project_id \in {NULL} \cup ProjectIds, page \in Pages :
              users[u] \in FieldRoles /\ get_blueprints(u, project_id, page[1], page[2])
                  => \A blueprint_id \in Range(last'.body) : OnTeamOf(u, blueprint_id)

C22_BlueprintsByTeam == [](C22_Download /\ C22_List) /\ [][C22_Step]_vars

\* a download answered with the file of a blueprint whose project has one of the
\* engineer and the technician on its team and not the other
C22_Witness ==
    /\ last.op = "download_blueprint"
    /\ last.code = 200
    /\ \E u \in TeamPool : OnTeamOf(u, last.body) /\ download_blueprint_code(u, last.body) = 200
    /\ \E u \in TeamPool : ~OnTeamOf(u, last.body) /\ download_blueprint_code(u, last.body) = 403

\* C23: delete_blueprint succeeds only for an admin or a project manager; an engineer
\* or technician is denied and the blueprint's is_active is left unchanged.
C23_Code ==
    \A u \in UserIds, blueprint_id \in BlueprintIds :
        /\ delete_blueprint_code(u, blueprint_id) = 200
              => users[u] \in {"admin", "project_manager"}
        /\ users[u] \in FieldRoles => delete_blueprint_code(u, blueprint_id) = 403

C23_Step ==
    last'.op = "delete_blueprint" =>
        /\ \A u \in BlueprintPrincipals, blueprint_id \in BlueprintIds :
              users[u] \in FieldRoles /\ delete_blueprint(u, blueprint_id)
                  => last'.code = 403 /\ UNCHANGED blueprints
        /\ last'.code = 403 => UNCHANGED blueprints

C23_DeleteBlueprintGated == []C23_Code /\ [][C23_Step]_vars

\* delete_blueprint was refused while an active blueprint is stored
C23_Witness ==
    /\ last = Response("delete_blueprint", 403)
    /\ \E b \in DOMAIN blueprints : blueprints[b].is_active

\* C24: get_user_settings, update_user_settings and reset_user_settings read and write
\* only the row whose user_id is the principal's, for every role; when the principal
\* has no row, get_user_settings creates one with the defaults and returns it; after
\* any sequence of these requests each user has at most one settings row.
RowsOf(user_id) == SelectSeq(settings, LAMBDA r : r.user_id = user_id)

C24_OneRow == \A user_id \in UserIds : Cardinality(SettingsOf(user_id)) <= 1

C24_Step ==
    \A u \in SettingsPrincipals :
        /\ \/ get_user_settings(u)
           \/ reset_user_settings(u)
           \/ \E body \in UserSettingsUpdateBodies : update_user_settings(u, body)
           => /\ \A v \in UserIds \ {u} : RowsOf(v)' = RowsOf(v)
              /\ last'.body.user_id = u
              /\ RowsOf(u)' = <<last'.body>>
        /\ get_user_settings(u) =>
              /\ RowsOf(u) # <<>> => last'.body = RowsOf(u)[1] /\ UNCHANGED settings
              /\ RowsOf(u) = <<>> => last'.body = [user_id |-> u, theme |-> "light"]

C24_OwnSettingsOnly == []C24_OneRow /\ [][C24_Step]_vars

\* get_user_settings created the row it returned: the row is the last of the table,
\* behind the row of a user registered later
C24_Witness ==
    /\ last.op = "get_user_settings"
    /\ Len(settings) >= 2
    /\ settings[Len(settings)] = last.body
    /\ settings[Len(settings) - 1].user_id > last.body.user_id
    /\ settings[Len(settings) - 1].theme = "dark"

\* C25: project_assignments holds at most one row for each (project_id, user_id) pair,
\* also after a create_project or update_project whose assigned_user_ids repeats a
\* user id.
C25_OneRowPerPair ==
    \A p \in DOMAIN assignments, user_id \in UserIds :
        Cardinality({k \in 1 .. Len(assignments[p]) : assignments[p][k] = user_id}) <= 1

\* C27: a project's created_by is set once, by create_project, to the creator's
\* user_id and is never changed by a later request (update_project with any change
\* set, task or blueprint requests) for as long as the project exists.
C27_Step ==
    /\ \A p \in DOMAIN projects \cap DOMAIN projects' :
          projects'[p].created_by = projects[p].created_by
    /\ last'.op = "create_project" =>
          \A u \in OwnerPrincipals, body \in ProjectCreateBodies :
              create_project(u, body) /\ last'.code = 201
                  => /\ last_project_id' \notin DOMAIN projects
                     /\ projects'[last_project_id'].created_by = u

C27_CreatedByFixed == [][C27_Step]_vars

\* update_project succeeded while a project created by the first manager, with a
\* team, a task and a blueprint of the second manager, is stored
C27_Witness ==
    /\ last = Response("update_project", 200)
    /\ \E p \in DOMAIN projects :
          /\ projects[p].created_by = 2
          /\ assignments[p] # <<>>
          /\ \E t \in DOMAIN tasks : tasks[t].project_id = p
          /\ \E b \in DOMAIN blueprints :
                blueprints[b].project_id = p /\ blueprints[b].uploaded_by = OwnerOther

\* C26: a request for a target that does not exist is answered 404 whatever the role of
\* the principal, the existence check coming before the role check: update_inventory_item
\* and delete_inventory_item on a missing item_id answer 404, not 403, to an engineer or
\* technician as well.
C26_Step ==
    \A u \in UserIds, item_id \in ItemIds \ DOMAIN inventory :
        /\ \A body \in InventoryUpdateBodies :
              update_inventory_item(u, item_id, body) => last'.code = 404
        /\ delete_inventory_item(u, item_id) => last'.code = 404

C26_MissingTargetIs404 == [][C26_Step]_vars

\* C30: once delete_blueprint has soft-deleted a blueprint (is_active = false) it never
\* appears again in get_blueprints through any sequence of requests by engineers or
\* technicians: an update_blueprint by such a principal cannot set is_active back to
\* true.
C30_Step ==
    last'.op = "update_blueprint" =>
        \A u \in BlueprintPrincipals, blueprint_id \in DOMAIN blueprints,
           body \in BlueprintUpdateBodies :
            /\ users[u] \in FieldRoles
            /\ ~blueprints[blueprint_id].is_active
            /\ ~blueprints[blueprint_id].file      \* only delete_blueprint removes the file
            /\ update_blueprint(u, blueprint_id, body)
            => ~blueprints'[blueprint_id].is_active

C30_SoftDeleteIsFinal == [][C30_Step]_vars

\* C29: no sequence of update_user requests by a principal who is not an admin changes
\* any user's role or is_active: such a principal can change only its own record and
\* never raises its own role.
C29_Step ==
    last'.op = "update_user" =>
        \A u \in AccessPrincipals, body \in UserUpdateBodies :
            users[u] # "admin" /\ update_user(u, AccessTarget, body) => users' = users

C29_NoSelfPromotion == [][C29_Step]_vars

\* C28: create_task or update_task (validate membership, then commit) running at the
\* same time as an update_project that replaces the same project's team: no
\* interleaving commits a task whose assignee is not a member of the project's team
\* at the time of the commit.
C28_Step ==
    \A r \in inflight :
        /\ create_task_commit(r) /\ last'.code = 201 =>
              \/ tasks'[last_task_id'].assigned_to = NULL
              \/ IsAssigned(tasks'[last_task_id'].project_id, tasks'[last_task_id'].assigned_to)
        /\ update_task_commit(r) =>
              \/ tasks'[r.tid].assigned_to = NULL
              \/ IsAssigned(tasks'[r.tid].project_id, tasks'[r.tid].assigned_to)

C28_CommitOnTeam == [][C28_Step]_vars

====
